---- MODULE Spec2Model ----
(***************************************************************************)
(* Connect-four engine of src/main.rs: Grid, Board (drop / set / update),  *)
(* the threat list, score, the move iterator and minimax.                  *)
(***************************************************************************)
EXTENDS Integers, Sequences, FiniteSets, TLC

VARIABLES
    board,      \* the Board being played on
    ret,        \* what the last call of drop returned (Option<usize>)
    accepted,   \* per column, how many drops into it have succeeded
    iter,       \* the live BoardMoveIterator, if any (Option)
    yielded,    \* what the calls of next on iter have returned, in order
    eval,       \* the arguments and the value of the last minimax call
    other,      \* a second Board of the same size, played on separately
    moves_scores,  \* main: the (score, board) pairs of the computer's turn
    message     \* main: what was printed when the loop was left (Option)

vars == <<board, ret, accepted, iter, yielded, eval, other,
          moves_scores, message>>

\* ---------------------------------------------------------------- bounds
\* plies explored on the default 7x6 board 
MaxDrops == 5
\* plies explored on the smaller boards
MaxSmallDrops == 9
\* plies explored before the move iterator is run
MaxIterDrops == 4
\* plies explored before minimax is run, and the deepest search
MaxSearchDrops == 6
MaxDepth == 2
\* plies explored on each of two boards played side by side
MaxPairDrops == 9

\* ------------------------------------------------------------- constants
DefaultWidth == 7
DefaultHeight == 6
\* arguments given to Board::new_with_size: the default board and small ones
Sizes == {<<DefaultWidth, DefaultHeight>>, <<4, 4>>, <<4, 2>>, <<5, 2>>}
\* the boards minimax is run on
SearchSizes == {<<4, 2>>}
\* the boards two games are played on side by side
PairSizes == {<<3, 4>>}
\* the boards a game of main is played on, each to its end
MainSizes == {<<DefaultWidth, 1>>, <<2, DefaultHeight>>, <<3, 3>>, <<4, 2>>}
\* the depth main gives to minimax
SearchDepth == 5

\* i32::MAX and i32::MIN; the integers of the checker are 32 bits wide too,
\* and a sum that leaves the range stops the check with an error
I32Max == 2147483647
I32Min == (-2147483647) - 1

Red == "Red"
Yellow == "Yellow"
Empty == "Empty"
Piece == {Red, Yellow, Empty}

\* Option<T>: None is the empty sequence, Some(v) the one-element sequence
None == <<>>
Some(v) == <<v>>

\* ------------------------------------------------------------------ Piece
\* opponent with the Red arm falling through to Empty
opponent_red_empty(p) ==
    CASE p = Red -> Empty
      [] p = Yellow -> Red
      [] p = Empty -> Empty

opponent(p) ==
    CASE p = Red -> Yellow
      [] p = Yellow -> Red
      [] p = Empty -> Empty

\* ------------------------------------------------------------------- Grid
\* Grid::new: width*height cells in one row-major vector
GridNew(w, h, default) ==
    [_data |-> [i \in 1..(w * h) |-> default], width |-> w, height |-> h]

\* Grid::get: _data[y * width + x] (sequences are 1-based)
GridGet(g, x, y) == g._data[y * g.width + x + 1]

\* a write through get_mut that indexes by y * height + x
GridSetByHeight(g, x, y, v) == [g EXCEPT !._data[y * g.height + x + 1] = v]

\* *Grid::get_mut(x, y) = v
GridSet(g, x, y, v) == [g EXCEPT !._data[y * g.width + x + 1] = v]

\* ------------------------------------------------------------------ Board
new_with_size(w, h) ==
    [grid |-> GridNew(w, h, Empty),
     drop_zones |-> [i \in 1..w |-> h],
     threats |-> <<>>,
     winner |-> None,
     next_move |-> Yellow,
     show_threats |-> FALSE]

\* Vec::contains
Contains(s, e) == \E i \in 1..Len(s) : s[i] = e

\* Vec::retain(|e| e /= v) on a vector of positions
RetainNot(s, v) ==
    LET keep(e) == e # v IN SelectSeq(s, keep)

\* update with the rising diagonal mistyped as a second horizontal
DirectionsNoRising == <<<<-1, -1>>, <<-1, 0>>, <<-1, 0>>, <<0, 1>>>>

\* the four direction vectors of update
Directions == <<<<-1, -1>>, <<-1, 0>>, <<-1, 1>>, <<0, 1>>>>

\* the cells x + d*dx, y + d*dy for d in -3..=3 that lie on the grid, each
\* with the piece it holds
Poses(g, x, y, dir) ==
    LET all == [i \in 1..7 |-> <<x + (i - 4) * dir[1], y + (i - 4) * dir[2]>>]
        onGrid(p) == /\ p[1] >= 0
                     /\ p[2] >= 0
                     /\ p[1] < g.width
                     /\ p[2] < g.height
        kept == SelectSeq(all, onGrid)
    IN  [i \in 1..Len(kept) |-> <<kept[i], GridGet(g, kept[i][1], kept[i][2])>>]

\* Tallies::get(piece).push(pos)
TallyPush(t, piece, pos) == [t EXCEPT ![piece] = Append(@, pos)]

\* Tallies::get(piece).retain(|pos| pos != early_pos)
TallyRetain(t, piece, pos) == [t EXCEPT ![piece] = RetainNot(@, pos)]

\* the threats pushed at index i of the window scan, Red before Yellow
WindowThreats(t) ==
    IF Len(t[Empty]) = 1
    THEN LET gap == Head(t[Empty])
         IN  (IF Len(t[Red]) = 3 THEN <<<<gap, Red>>>> ELSE <<>>)
             \o (IF Len(t[Yellow]) = 3 THEN <<<<gap, Yellow>>>> ELSE <<>>)
    ELSE <<>>

\* the window scan recording a threat only when it is not yet listed
RECURSIVE ScanLineNoRepeat(_, _, _, _)
ScanLineNoRepeat(poses, i, tallies, threats) ==
    IF i >= Len(poses) THEN threats
    ELSE LET t1 == TallyPush(tallies, poses[i + 1][2], poses[i + 1][1])
             t2 == IF i >= 4
                   THEN TallyRetain(t1, poses[i - 4 + 1][2], poses[i - 4 + 1][1])
                   ELSE t1
             new(e) == ~Contains(threats, e)
             th == IF i >= 3
                   THEN threats \o SelectSeq(WindowThreats(t2), new)
                   ELSE threats
         IN  ScanLineNoRepeat(poses, i + 1, t2, th)

\* the loop "for i in 0..poses.len()" of update from index i on, over one
\* line; i is 0-based as in the source
RECURSIVE ScanLine(_, _, _, _)
ScanLine(poses, i, tallies, threats) ==
    IF i >= Len(poses) THEN threats
    ELSE LET t1 == TallyPush(tallies, poses[i + 1][2], poses[i + 1][1])
             t2 == IF i >= 4
                   THEN TallyRetain(t1, poses[i - 4 + 1][2], poses[i - 4 + 1][1])
                   ELSE t1
             th == IF i >= 3 THEN threats \o WindowThreats(t2) ELSE threats
         IN  ScanLine(poses, i + 1, t2, th)

NewTallies == [p \in Piece |-> <<>>]

\* Board::update: the lines through (x, y) of at least four cells, in the
\* order of Directions
RECURSIVE UpdateFrom(_, _, _, _, _)
UpdateFrom(g, x, y, k, threats) ==
    IF k > Len(Directions) THEN threats
    ELSE LET poses == Poses(g, x, y, Directions[k])
             th == IF Len(poses) >= 4
                   THEN ScanLine(poses, 0, NewTallies, threats)
                   ELSE threats
         IN  UpdateFrom(g, x, y, k + 1, th)

update(b, x, y) == [b EXCEPT !.threats = UpdateFrom(b.grid, x, y, 1, b.threats)]

\* threats.retain(|&(pos, _)| pos != (x, y))
RetainThreats(threats, x, y) ==
    LET keep(e) == e[1] # <<x, y>> IN SelectSeq(threats, keep)

\* set that keeps the threats on the cell it fills
set_no_retain(b, x, y, piece) ==
    LET b1 == [b EXCEPT !.grid = GridSet(b.grid, x, y, piece)]
        b2 == IF Contains(b1.threats, <<<<x, y>>, piece>>)
              THEN [b1 EXCEPT !.winner = Some(piece)]
              ELSE b1
    IN  update(b2, x, y)

\* set that takes a threat of either color on the cell for a win
set_any_color(b, x, y, piece) ==
    LET b1 == [b EXCEPT !.grid = GridSet(b.grid, x, y, piece)]
        b2 == IF \E c \in {Red, Yellow} : Contains(b1.threats, <<<<x, y>>, c>>)
              THEN [b1 EXCEPT !.winner = Some(piece)]
              ELSE b1
        b3 == [b2 EXCEPT !.threats = RetainThreats(b2.threats, x, y)]
    IN  update(b3, x, y)

\* set that clears the threats on the cell before it looks for a win
set_retain_first(b, x, y, piece) ==
    LET b1 == [b EXCEPT !.grid = GridSet(b.grid, x, y, piece)]
        b2 == [b1 EXCEPT !.threats = RetainThreats(b1.threats, x, y)]
        b3 == IF Contains(b2.threats, <<<<x, y>>, piece>>)
              THEN [b2 EXCEPT !.winner = Some(piece)]
              ELSE b2
    IN  update(b3, x, y)

\* Board::set
set(b, x, y, piece) ==
    LET b1 == [b EXCEPT !.grid = GridSet(b.grid, x, y, piece)]
        b2 == IF Contains(b1.threats, <<<<x, y>>, piece>>)
              THEN [b1 EXCEPT !.winner = Some(piece)]
              ELSE b1
        b3 == [b2 EXCEPT !.threats = RetainThreats(b2.threats, x, y)]
    IN  update(b3, x, y)

\* drop that passes the turn on even when the column is full
drop_flip_on_full(b, x) ==
    IF b.drop_zones[x + 1] > 0
    THEN LET b1 == [b EXCEPT !.drop_zones[x + 1] = @ - 1]
             drop_spot == b1.drop_zones[x + 1]
             b2 == set(b1, x, drop_spot, b1.next_move)
             b3 == [b2 EXCEPT !.next_move = opponent(b2.next_move)]
         IN  [board |-> b3, ret |-> Some(drop_spot)]
    ELSE [board |-> [b EXCEPT !.next_move = opponent(b.next_move)], ret |-> None]

\* drop that returns the counter as it was before the decrement
drop_returns_old(b, x) ==
    IF b.drop_zones[x + 1] > 0
    THEN LET b1 == [b EXCEPT !.drop_zones[x + 1] = @ - 1]
             drop_spot == b1.drop_zones[x + 1]
             b2 == set(b1, x, drop_spot, b1.next_move)
             b3 == [b2 EXCEPT !.next_move = opponent(b2.next_move)]
         IN  [board |-> b3, ret |-> Some(b.drop_zones[x + 1])]
    ELSE [board |-> b, ret |-> None]

\* Board::drop: the board afterwards and the returned Option<usize>
drop(b, x) ==
    IF b.drop_zones[x + 1] > 0
    THEN LET b1 == [b EXCEPT !.drop_zones[x + 1] = @ - 1]
             drop_spot == b1.drop_zones[x + 1]
             b2 == set(b1, x, drop_spot, b1.next_move)
             b3 == [b2 EXCEPT !.next_move = opponent(b2.next_move)]
         IN  [board |-> b3, ret |-> Some(drop_spot)]
    ELSE [board |-> b, ret |-> None]

\* ----------------------------------------------------------------- Search
RECURSIVE Pow2(_)
Pow2(n) == IF n = 0 THEN 1 ELSE 2 * Pow2(n - 1)

\* the closure of score without the test for the bottom row
ThreatValueAnyRow(b, t) ==
    CASE t[2] = Red -> Pow2(t[1][2])
      [] t[2] = Yellow -> -Pow2(t[1][2])
      [] OTHER -> 0

\* the closure of score: what one threat adds to the sum
ThreatValue(b, t) ==
    IF t[1][2] = b.grid.height - 1 THEN 0
    ELSE CASE t[2] = Red -> Pow2(t[1][2])
           [] t[2] = Yellow -> -Pow2(t[1][2])
           [] OTHER -> 0

\* the sum of score over the whole threat vector, before any wrapping
RECURSIVE ScoreSumFrom(_, _)
ScoreSumFrom(b, k) ==
    IF k > Len(b.threats) THEN 0
    ELSE ThreatValue(b, b.threats[k]) + ScoreSumFrom(b, k + 1)

ScoreSum(b) == ScoreSumFrom(b, 1)

\* score with the two colors of the winner exchanged
score_swapped(b) ==
    IF b.winner # None
    THEN IF b.winner[1] = Yellow THEN I32Max ELSE I32Min
    ELSE ScoreSum(b)

\* Board::score
score(b) ==
    IF b.winner # None
    THEN IF b.winner[1] = Yellow THEN I32Min ELSE I32Max
    ELSE ScoreSum(b)

\* game_over that takes one full column for a full board
game_over_any_full(b) ==
    b.winner # None \/ \E i \in 1..Len(b.drop_zones) : b.drop_zones[i] = 0

\* Board::game_over
game_over(b) ==
    b.winner # None \/ \A i \in 1..Len(b.drop_zones) : b.drop_zones[i] = 0

\* Board::moves
moves(b) == [board |-> b, move_index |-> 0]

\* the while loop of next: step over the full columns
RECURSIVE SkipFull(_, _)
SkipFull(dz, i) ==
    IF i < Len(dz) /\ dz[i + 1] = 0 THEN SkipFull(dz, i + 1) ELSE i

\* next without the loop that steps over the full columns
next_no_skip(it) ==
    LET i == it.move_index
    IN  IF i < Len(it.board.drop_zones)
        THEN [iter |-> [it EXCEPT !.move_index = i + 1],
              item |-> Some(drop(it.board, i).board)]
        ELSE [iter |-> [it EXCEPT !.move_index = i], item |-> None]

\* BoardMoveIterator::next: the iterator afterwards and the returned item
next(it) ==
    LET i == SkipFull(it.board.drop_zones, it.move_index)
    IN  IF i < Len(it.board.drop_zones)
        THEN [iter |-> [it EXCEPT !.move_index = i + 1],
              item |-> Some(drop(it.board, i).board)]
        ELSE [iter |-> [it EXCEPT !.move_index = i], item |-> None]

\* "for child in state.moves()": the children in the order next returns them
RECURSIVE CollectFrom(_)
CollectFrom(it) ==
    LET r == next(it)
    IN  IF r.item = None THEN <<>> ELSE <<r.item[1]>> \o CollectFrom(r.iter)

Children(b) == CollectFrom(moves(b))

Max(a, b) == IF a >= b THEN a ELSE b
Min(a, b) == IF a <= b THEN a ELSE b

\* the closures omax and omin of minimax
omax(a, b) == IF a = None THEN Some(b) ELSE Some(Max(a[1], b))
omin(a, b) == IF a = None THEN Some(b) ELSE Some(Min(a[1], b))

RECURSIVE minimax(_, _, _, _, _)
RECURSIVE MaxLoop(_, _, _, _, _, _, _)
RECURSIVE MinLoop(_, _, _, _, _, _, _)

RECURSIVE MaxLoopBreak(_, _, _, _, _, _, _)
\* the maximizing loop with the break of lines 386-388 in force
MaxLoopBreak(state, children, k, depth, max_eval, new_alpha, beta) ==
    IF k > Len(children)
    THEN IF max_eval = None THEN score(state) ELSE max_eval[1]
    ELSE LET child_score == minimax(children[k], depth - 1, new_alpha, beta, FALSE)
             m == omax(max_eval, child_score)
             a == omax(new_alpha, child_score)
         IN  IF beta = None \/ a = None \/ beta[1] <= a[1]
             THEN m[1]
             ELSE MaxLoopBreak(state, children, k + 1, depth, m, a, beta)

\* the maximizing for loop of minimax from child k on
MaxLoop(state, children, k, depth, max_eval, new_alpha, beta) ==
    IF k > Len(children)
    THEN IF max_eval = None THEN score(state) ELSE max_eval[1]
    ELSE LET child_score == minimax(children[k], depth - 1, new_alpha, beta, FALSE)
         IN  MaxLoop(state, children, k + 1, depth,
                     omax(max_eval, child_score), omax(new_alpha, child_score), beta)

RECURSIVE MinLoopKeepsMax(_, _, _, _, _, _, _)
\* the minimizing loop keeping the running maximum instead of the minimum
MinLoopKeepsMax(state, children, k, depth, min_eval, alpha, new_beta) ==
    IF k > Len(children)
    THEN IF min_eval = None THEN score(state) ELSE min_eval[1]
    ELSE LET child_score == minimax(children[k], depth - 1, alpha, new_beta, TRUE)
         IN  MinLoopKeepsMax(state, children, k + 1, depth,
                             omax(min_eval, child_score), alpha,
                             omin(new_beta, child_score))

\* the minimizing for loop of minimax from child k on
MinLoop(state, children, k, depth, min_eval, alpha, new_beta) ==
    IF k > Len(children)
    THEN IF min_eval = None THEN score(state) ELSE min_eval[1]
    ELSE LET child_score == minimax(children[k], depth - 1, alpha, new_beta, TRUE)
         IN  MinLoop(state, children, k + 1, depth,
                     omin(min_eval, child_score), alpha, omin(new_beta, child_score))

minimax(state, depth, alpha, beta, maximizing) ==
    IF depth = 0 \/ game_over(state) THEN score(state)
    ELSE IF maximizing
         THEN MaxLoop(state, Children(state), 1, depth, None, alpha, beta)
         ELSE MinLoop(state, Children(state), 1, depth, None, alpha, beta)

\* -------------------------------------------------------------- behaviour
Columns(b) == 0..(b.grid.width - 1)
Rows(b) == 0..(b.grid.height - 1)

RECURSIVE SumSeq(_)
SumSeq(s) == IF s = <<>> THEN 0 ELSE Head(s) + SumSeq(Tail(s))

\* how many drops a board of this size is followed for
DropBudget(b) ==
    IF b.grid.width = DefaultWidth /\ b.grid.height = DefaultHeight
    THEN MaxDrops
    ELSE MaxSmallDrops

InitSizes(sizes) ==
    /\ \E s \in sizes : board = new_with_size(s[1], s[2])
    /\ ret = None
    /\ accepted = [i \in 1..board.grid.width |-> 0]
    /\ iter = None
    /\ yielded = <<>>
    /\ eval = None
    /\ other = None
    /\ moves_scores = <<>>
    /\ message = None

Init == InitSizes(Sizes)

\* a call board.drop(x) on the board being played on, while fewer than
\* budget drops have succeeded; the iterator and the scores of the turn
\* before it are locals that are gone by then
DropWithin(x, budget) ==
    /\ \/ board.drop_zones[x + 1] = 0
       \/ SumSeq(accepted) < budget
    /\ \E r \in {drop(board, x)} :
           /\ board' = r.board
           /\ ret' = r.ret
           /\ accepted' = IF r.ret # None
                          THEN [accepted EXCEPT ![x + 1] = @ + 1]
                          ELSE accepted
    /\ iter' = None
    /\ yielded' = <<>>
    /\ eval' = None
    /\ UNCHANGED <<other, moves_scores, message>>

Drop(x) == DropWithin(x, DropBudget(board))

Next == \E x \in Columns(board) : Drop(x)

Spec == Init /\ [][Next]_vars

\* ---- the move iterator
IterDrop(x) == DropWithin(x, MaxIterDrops)

\* board.moves()
MovesCall ==
    /\ iter = None
    /\ iter' = Some(moves(board))
    /\ yielded' = <<>>
    /\ UNCHANGED <<board, ret, accepted, eval, other, moves_scores, message>>

\* one call of next by the for loop, which stops calling after a None
IterNext ==
    /\ iter # None
    /\ IF yielded = <<>> THEN TRUE ELSE yielded[Len(yielded)] # None
    /\ \E r \in {next(iter[1])} :
           /\ iter' = Some(r.iter)
           /\ yielded' = Append(yielded, r.item)
    /\ UNCHANGED <<board, ret, accepted, eval, other, moves_scores, message>>

NextMoves ==
    \/ \E x \in Columns(board) : IterDrop(x)
    \/ MovesCall
    \/ IterNext

SpecMoves == Init /\ [][NextMoves]_vars

\* ---- minimax
SearchDrop(x) == DropWithin(x, MaxSearchDrops)

\* the alpha and beta a call is given
Bounds == {None, Some(0)}

\* minimax(&board, depth, alpha, beta, maximizing), once per position
MinimaxCall(depth, alpha, beta, maximizing) ==
    /\ eval = None
    /\ eval' = Some([depth |-> depth, alpha |-> alpha, beta |-> beta,
                     maximizing |-> maximizing,
                     value |-> minimax(board, depth, alpha, beta, maximizing)])
    /\ UNCHANGED <<board, ret, accepted, iter, yielded, other,
                   moves_scores, message>>

NextSearch ==
    \/ \E x \in Columns(board) : SearchDrop(x)
    \/ \E depth \in 0..MaxDepth, alpha \in Bounds, beta \in Bounds,
          maximizing \in BOOLEAN :
            MinimaxCall(depth, alpha, beta, maximizing)

SpecSearch == InitSizes(SearchSizes) /\ [][NextSearch]_vars

\* ---- two boards of one size, each reached by its own drops
\* the two boards can still become equal: no cell holds Red on one and
\* Yellow on the other (a piece, once placed, stays)
CanStillAgree(b1, b2) ==
    \A i \in 1..Len(b1.grid._data) :
        \/ b1.grid._data[i] = Empty
        \/ b2.grid._data[i] = Empty
        \/ b1.grid._data[i] = b2.grid._data[i]

\* board.drop(x) and other.drop(y), both accepted
PairDrop(x, y) ==
    /\ other # None
    /\ SumSeq(accepted) < MaxPairDrops
    /\ board.drop_zones[x + 1] > 0
    /\ other[1].drop_zones[y + 1] > 0
    /\ \E r \in {drop(board, x)}, q \in {drop(other[1], y)} :
           IF CanStillAgree(r.board, q.board)
           THEN /\ board' = r.board
                /\ ret' = r.ret
                /\ other' = Some(q.board)
           ELSE FALSE
    /\ accepted' = [accepted EXCEPT ![x + 1] = @ + 1]
    /\ UNCHANGED <<iter, yielded, eval, moves_scores, message>>

InitPair ==
    /\ \E s \in PairSizes : board = new_with_size(s[1], s[2])
    /\ other = Some(board)
    /\ ret = None
    /\ accepted = [i \in 1..board.grid.width |-> 0]
    /\ iter = None
    /\ yielded = <<>>
    /\ eval = None
    /\ moves_scores = <<>>
    /\ message = None

NextPair == \E x \in Columns(board), y \in Columns(board) : PairDrop(x, y)

SpecPair == InitPair /\ [][NextPair]_vars

\* ---- main: the human plays Yellow, the computer plays Red
Wins == "wins!"
Tie == "Tie, nobody wins"
TieNever == "Tie, nobody wins (this should never occur)"

\* the end of the loop body with only the check for a full board
LoopExitNoWinner(b) ==
    IF \A i \in 1..Len(b.drop_zones) : b.drop_zones[i] = 0
    THEN Some(Tie)
    ELSE None

\* the end of the loop body: what is printed before break, None to loop on
LoopExit(b) ==
    IF b.winner # None THEN Some(Wins)
    ELSE IF \A i \in 1..Len(b.drop_zones) : b.drop_zones[i] = 0
         THEN Some(Tie)
         ELSE None

\* moves_scores: every board of board.moves() with its minimax value
MovesScores(b) ==
    LET kids == Children(b)
    IN  [i \in 1..Len(kids) |->
            [score |-> minimax(kids[i], SearchDepth, None, None, FALSE),
             board |-> kids[i]]]

\* a selection that keeps the entries of the lowest score
max_scores_lowest(ms) ==
    {i \in 1..Len(ms) : \A j \in 1..Len(ms) : ms[j].score >= ms[i].score}

\* max_scores: the entries of moves_scores whose score is max_score
max_scores(ms) ==
    {i \in 1..Len(ms) : \A j \in 1..Len(ms) : ms[j].score <= ms[i].score}

\* the human's turn: a line is read and parsed to move_x; a number that is
\* no column or names a full column loops on with nothing changed
HumanMove(move_x) ==
    /\ message = None
    /\ board.next_move = Yellow
    /\ IF move_x >= board.grid.width THEN UNCHANGED <<board, message>>
       ELSE IF board.drop_zones[move_x + 1] <= 0
            THEN UNCHANGED <<board, message>>
            ELSE \E r \in {drop(board, move_x)} :
                     /\ board' = r.board
                     /\ message' = LoopExit(r.board)
    /\ UNCHANGED <<ret, accepted, iter, yielded, eval, other, moves_scores>>

\* the computer's turn
ComputerMove ==
    /\ message = None
    /\ board.next_move # Yellow
    /\ \E ms \in {MovesScores(board)} :
           /\ moves_scores' = ms
           /\ IF ms = <<>>
              THEN /\ message' = Some(TieNever)
                   /\ UNCHANGED board
              ELSE \E i \in max_scores(ms) :
                       /\ board' = ms[i].board
                       /\ message' = LoopExit(ms[i].board)
    /\ UNCHANGED <<ret, accepted, iter, yielded, eval, other>>

InitMain ==
    /\ \E s \in MainSizes :
           board = [new_with_size(s[1], s[2]) EXCEPT !.show_threats = TRUE]
    /\ ret = None
    /\ accepted = [i \in 1..board.grid.width |-> 0]
    /\ iter = None
    /\ yielded = <<>>
    /\ eval = None
    /\ other = None
    /\ moves_scores = <<>>
    /\ message = None

NextMain ==
    \/ \E move_x \in 0..board.grid.width : HumanMove(move_x)
    \/ ComputerMove

SpecMain == InitMain /\ [][NextMain]_vars

\* ------------------------------------------------------------- properties
InGrid(b, q) ==
    /\ q[1] >= 0
    /\ q[2] >= 0
    /\ q[1] < b.grid.width
    /\ q[2] < b.grid.height

Cell(b, q) == GridGet(b.grid, q[1], q[2])

\* the directions of a four-in-a-row: horizontal, vertical, both diagonals
LineDirs == {<<1, 0>>, <<0, 1>>, <<1, 1>>, <<1, -1>>}

\* how many cells in a row hold color c, going from (x, y) in steps of
\* (dx, dy), starting one step away and looking no further than three steps
RECURSIVE Run(_, _, _, _, _, _, _)
Run(b, x, y, dx, dy, c, d) ==
    IF d > 3 THEN 0
    ELSE IF /\ x + d * dx >= 0
            /\ x + d * dx < b.grid.width
            /\ y + d * dy >= 0
            /\ y + d * dy < b.grid.height
            /\ GridGet(b.grid, x + d * dx, y + d * dy) = c
         THEN 1 + Run(b, x, y, dx, dy, c, d + 1)
         ELSE 0

\* filling p with color c would complete a four-in-a-row of c: along some
\* line, the cells of color c that touch p on its two sides number three or
\* more, so that some window of four cells through p holds c in the other three
WouldComplete(b, p, c) ==
    \E dir \in LineDirs :
        Run(b, p[1], p[2], dir[1], dir[2], c, 1)
            + Run(b, p[1], p[2], -dir[1], -dir[2], c, 1) >= 3

Bottom(b) == b.grid.height - 1

\* Yellow holds the bottom cells of columns 0, 1, 2 and that of column 3 is free
YellowThreeInBottomRow(b) ==
    /\ b.grid.width >= 4
    /\ \A x \in 0..2 : Cell(b, <<x, Bottom(b)>>) = Yellow
    /\ Cell(b, <<3, Bottom(b)>>) = Empty

\* C1: an empty cell p is listed in threats for a color c exactly when some
\* window of four cells through p holds c in its three other cells; so with
\* Yellow on the bottom cells of columns 0, 1, 2 and the bottom cell of
\* column 3 empty, ((3, height-1), Yellow) is listed.
C1_ThreatsExact ==
    /\ \A i \in 1..Len(board.threats) :
          Cell(board, board.threats[i][1]) = Empty =>
            WouldComplete(board, board.threats[i][1], board.threats[i][2])
    /\ \A x \in Columns(board), y \in Rows(board), c \in {Red, Yellow} :
          (Cell(board, <<x, y>>) = Empty /\ WouldComplete(board, <<x, y>>, c))
            => Contains(board.threats, <<<<x, y>>, c>>)
    /\ YellowThreeInBottomRow(board) =>
          Contains(board.threats, <<<<3, Bottom(board)>>, Yellow>>)

C1_Witness ==
    /\ board.grid.width = DefaultWidth
    /\ YellowThreeInBottomRow(board)
    /\ Contains(board.threats, <<<<3, Bottom(board)>>, Yellow>>)

\* C2: a drop into a column whose counter is 0 returns None and leaves the
\* whole board (grid, drop_zones, threats, winner, next_move) as it was.
C2_FullColumnRejected ==
    [][\A x \in Columns(board) :
         (board.drop_zones[x + 1] = 0 /\ Drop(x)) =>
            (ret' = None /\ board' = board)]_vars

C2_Witness ==
    /\ ret = None
    /\ \E x \in Columns(board) : board.drop_zones[x + 1] = 0
    /\ board.next_move = Red

\* C3: once winner is Some(c) it stays Some(c) through every later drop.
C3_WinnerNeverChanges ==
    [][board.winner # None => board'.winner = board.winner]_vars

C5_ThreatsOnEmptyCells ==
    \A i \in 1..Len(board.threats) : Cell(board, board.threats[i][1]) = Empty

C5_Witness ==
    /\ board.winner # None
    /\ board.threats # <<>>
    /\ \A i \in 1..Len(board.threats) : Cell(board, board.threats[i][1]) = Empty

\* ---- minimax against the exhaustive search
SetMax(S) == CHOOSE v \in S : \A w \in S : w <= v
SetMin(S) == CHOOSE v \in S : \A w \in S : v <= w

\* the boards one legal drop away
Successors(b) ==
    {drop(b, c).board : c \in {d \in Columns(b) : b.drop_zones[d + 1] # 0}}

\* minimax without alpha and beta: every child of every layer is visited
RECURSIVE Exhaustive(_, _, _)
Exhaustive(b, depth, maximizing) ==
    IF depth = 0 \/ game_over(b) \/ Successors(b) = {} THEN score(b)
    ELSE IF maximizing
         THEN SetMax({Exhaustive(t, depth - 1, FALSE) : t \in Successors(b)})
         ELSE SetMin({Exhaustive(t, depth - 1, TRUE) : t \in Successors(b)})

\* C6: whatever alpha and beta it is given, minimax returns the score that
\* the exhaustive search of the same depth and side returns.
C6_AlphaBetaSameScore ==
    eval # None =>
        eval[1].value = Exhaustive(board, eval[1].depth, eval[1].maximizing)

\* a two-ply maximizing search, given both bounds, whose first child is not
\* the best one
C6_Witness ==
    /\ eval # None
    /\ eval[1].depth = 2
    /\ eval[1].maximizing
    /\ eval[1].alpha # None
    /\ eval[1].beta # None
    /\ eval[1].value > minimax(Children(board)[1], 1, None, None, FALSE)

C8_DropZones ==
    /\ [](\A x \in Columns(board) :
            /\ board.drop_zones[x + 1] >= 0
            /\ board.drop_zones[x + 1] <= board.grid.height
            /\ accepted[x + 1] + board.drop_zones[x + 1] = board.grid.height)
    /\ [][/\ \A x \in Columns(board) :
               (board.drop_zones[x + 1] = 0 /\ Drop(x)) =>
                  /\ ret' = None
                  /\ board'.drop_zones = board.drop_zones
                  /\ accepted' = accepted
          /\ \/ /\ ret' = None
                /\ \E x \in Columns(board) : board.drop_zones[x + 1] = 0
                /\ board'.drop_zones = board.drop_zones
                /\ accepted' = accepted
             \/ \E x \in Columns(board) :
                  /\ board.drop_zones[x + 1] > 0
                  /\ board'.drop_zones =
                        [board.drop_zones EXCEPT ![x + 1] = @ - 1]
                  /\ ret' = Some(board.drop_zones[x + 1] - 1)
                  /\ accepted' = [accepted EXCEPT ![x + 1] = @ + 1]]_vars

C8_Witness ==
    /\ ret = None
    /\ \E x \in Columns(board) :
          /\ board.drop_zones[x + 1] = 0
          /\ accepted[x + 1] = board.grid.height
          /\ board.grid.height = 4

\* C9: a new board has Yellow to move; a successful drop places the color
\* whose turn it is and passes the turn to the other color, a rejected drop
\* does not; so Yellow is to move exactly after an even number of drops.
C9_TurnsAlternate ==
    /\ (SumSeq(accepted) = 0 => board.next_move = Yellow)
    /\ [](/\ board.next_move \in {Red, Yellow}
          /\ board.next_move = Yellow <=> SumSeq(accepted) % 2 = 0)
    /\ [][IF accepted' # accepted
          THEN \E x \in Columns(board) :
                  /\ accepted'[x + 1] = accepted[x + 1] + 1
                  /\ Cell(board, <<x, board.drop_zones[x + 1] - 1>>) = Empty
                  /\ Cell(board', <<x, board.drop_zones[x + 1] - 1>>)
                        = board.next_move
                  /\ board'.next_move = IF board.next_move = Yellow
                                        THEN Red ELSE Yellow
          ELSE board'.next_move = board.next_move]_vars

C9_Witness ==
    /\ SumSeq(accepted) = 3
    /\ board.next_move = Red
    /\ ret = None

\* ---- the move iterator against the drops it stands for
\* the columns below index n that are not full, in increasing order
OpenColumnsBelow(b, n) ==
    LET open(c) == c < n /\ b.drop_zones[c + 1] # 0
    IN  SelectSeq([i \in 1..b.grid.width |-> i - 1], open)

\* the items a finished iteration over b returns before its None
ExpectedItems(b, n) ==
    [k \in 1..Len(OpenColumnsBelow(b, n)) |->
        Some(drop(b, OpenColumnsBelow(b, n)[k]).board)]

Exhausted == yielded # <<>> /\ yielded[Len(yielded)] = None

\* C10: moves() yields one successor for each column that is not full, in
\* increasing column order, each the board after a drop into that column,
\* steps over the full columns, and leaves the board it was called on as it
\* was.
C10_MovesAreDrops ==
    /\ [](iter # None =>
            /\ iter[1].board = board
            /\ IF Exhausted
               THEN yielded = Append(ExpectedItems(board, board.grid.width), None)
               ELSE /\ yielded = ExpectedItems(board, iter[1].move_index)
                    /\ \/ yielded = <<>>
                       \/ board.drop_zones[iter[1].move_index] # 0)
    /\ [][(MovesCall \/ IterNext) => board' = board]_vars

\* a finished iteration that stepped over a full column
C10_Witness ==
    /\ iter # None
    /\ Exhausted
    /\ Len(yielded) > 1
    /\ Len(yielded) <= board.grid.width

\* ---- terminal boards
AllFull(b) == \A x \in Columns(b) : b.drop_zones[x + 1] = 0

\* what the first call of next on b.moves() returns
FirstMove(b) == next(moves(b)).item

\* C11: moves() yields nothing exactly when every counter is 0, and
\* game_over() holds exactly when winner is set or every counter is 0; so a
\* full board without a winner is over and has no successor, and a board
\* that is not over has at least one.
C11_NoMovesIffFull ==
    /\ FirstMove(board) = None <=> AllFull(board)
    /\ game_over(board) <=> (board.winner # None \/ AllFull(board))
    /\ ~game_over(board) => FirstMove(board) # None

C11_Witness ==
    /\ AllFull(board)
    /\ board.winner = None
    /\ game_over(board)
    /\ Children(board) = <<>>

\* C12: once game_over() holds, no drop into any column changes the board.
C12_TerminalImmutable ==
    [][game_over(board) => board' = board]_vars

\* ---- minimax against its defining recursion
\* the value V of a state: its score at depth 0, when the game is over or
\* when moves() yields nothing, else the largest (maximizing) or smallest
\* (minimizing) value of its children one ply down with the sides exchanged
RECURSIVE Reference(_, _, _)
Reference(state, depth, maximizing) ==
    IF depth = 0 \/ game_over(state) THEN score(state)
    ELSE LET kids == Children(state)
             vals == {Reference(kids[k], depth - 1, ~maximizing) :
                         k \in 1..Len(kids)}
         IN  IF kids = <<>> THEN score(state)
             ELSE IF maximizing THEN SetMax(vals) ELSE SetMin(vals)

\* C13: a minimax call returns (so it terminates) the value V of the
\* reference recursion, which is the score of the state itself at depth 0
\* and on a board whose game is over.
C13_MinimaxIsReference ==
    eval # None =>
        /\ eval[1].value
              = Reference(board, eval[1].depth, eval[1].maximizing)
        /\ (eval[1].depth = 0 \/ game_over(board)) =>
              eval[1].value = score(board)

\* a two-ply minimizing search that returns less than its first child is
\* worth, on a board that is not over
C13_Witness ==
    /\ eval # None
    /\ eval[1].depth = 2
    /\ ~eval[1].maximizing
    /\ ~game_over(board)
    /\ eval[1].value < minimax(Children(board)[1], 1, None, None, TRUE)

\* ---- derived state as a function of the grid
\* Board::eq: the grid and next_move, nothing else
BoardEq(b1, b2) == b1.grid = b2.grid /\ b1.next_move = b2.next_move

ThreatSet(b) == {b.threats[i] : i \in 1..Len(b.threats)}

\* C14: two boards reached by any two sequences of drops that are equal
\* under Board equality have the same winner and the same set of threats.
C14_DerivedFromGrid ==
    (other # None /\ BoardEq(board, other[1])) =>
        /\ board.winner = other[1].winner
        /\ ThreatSet(board) = ThreatSet(other[1])

\* ---- threats as a collection
\* how often the pair e occurs in the vector s
Count(s, e) == Cardinality({i \in 1..Len(s) : s[i] = e})

\* the windows of four cells along dir that contain p and hold c in their
\* three other cells: p is the k-th cell of one when k cells of c lie behind
\* it and 3 - k ahead
WindowsAlong(b, p, dir, c) ==
    Cardinality({k \in 0..3 :
        /\ k <= Run(b, p[1], p[2], -dir[1], -dir[2], c, 1)
        /\ 3 - k <= Run(b, p[1], p[2], dir[1], dir[2], c, 1)})

RECURSIVE SumOver(_, _)
SumOver(S, f) ==
    IF S = {} THEN 0
    ELSE LET e == CHOOSE x \in S : TRUE
         IN  f[e] + SumOver(S \ {e}, f)

WindowCount(b, p, c) ==
    SumOver(LineDirs, [dir \in LineDirs |-> WindowsAlong(b, p, dir, c)])

\* C15 as claimed: no (position, color) pair occurs in threats more than
\* once, so a cell appears at most once per color.
C15_NoPairTwice ==
    \A i, j \in 1..Len(board.threats) :
        i # j => board.threats[i] # board.threats[j]

\* C15 as amended: threats is a multiset; a (position, color) pair occurs in
\* it once for each window of four cells through the position whose three
\* other cells hold the color, so a pair can occur more than once.
C15_OncePerWindow ==
    \A i \in 1..Len(board.threats) :
        Count(board.threats, board.threats[i])
            = WindowCount(board, board.threats[i][1], board.threats[i][2])

C15_Witness ==
    \E i \in 1..Len(board.threats) :
        /\ Count(board.threats, board.threats[i]) = 2
        /\ WindowCount(board, board.threats[i][1], board.threats[i][2]) = 2

\* ---- the heuristic
\* what one occurrence of a threat on row y is worth
Weight(b, y, c) ==
    IF y = b.grid.height - 1 THEN 0
    ELSE IF c = Red THEN 2 ^ y ELSE -(2 ^ y)

\* C16 as claimed: with no winner, score() is the sum over the distinct
\* threats, each counted once, of 0 on the bottom row, +2^row for Red and
\* -2^row for Yellow.
C16_ScoreOverDistinct ==
    board.winner = None =>
        score(board)
          = SumOver(ThreatSet(board),
                    [t \in ThreatSet(board) |-> Weight(board, t[1][2], t[2])])

\* C16 as amended: with no winner, score() is that sum over the entries of
\* threats, a pair that occurs k times being counted k times.
C16_ScoreOverEntries ==
    board.winner = None =>
        score(board)
          = SumOver(ThreatSet(board),
                    [t \in ThreatSet(board) |->
                        Count(board.threats, t) * Weight(board, t[1][2], t[2])])

\* no winner, and a threat above the bottom row that is listed twice
C16_Witness ==
    /\ board.winner = None
    /\ score(board) # 0
    /\ \E t \in ThreatSet(board) :
          /\ Count(board.threats, t) > 1
          /\ t[1][2] < board.grid.height - 1

\* ---- the winner against the grid
\* the grid holds four cells of color c in a row: some cell of c has three
\* more of c next to it along a line
HasFour(b, c) ==
    \E x \in Columns(b), y \in Rows(b) :
        /\ GridGet(b.grid, x, y) = c
        /\ \E dir \in LineDirs : Run(b, x, y, dir[1], dir[2], c, 1) >= 3

\* C17: winner is None exactly when the grid holds no four-in-a-row of
\* either color, a winner c has a four-in-a-row of c on the grid, and a drop
\* that completes a four-in-a-row of the mover makes the mover the winner
\* and the game over.
C17_WinnerIffFour ==
    /\ [](/\ board.winner = None
              <=> (~HasFour(board, Red) /\ ~HasFour(board, Yellow))
          /\ board.winner # None => HasFour(board, board.winner[1]))
    /\ [][\A x \in Columns(board) :
            (/\ board'.drop_zones[x + 1] # board.drop_zones[x + 1]
             /\ WouldComplete(board, <<x, board.drop_zones[x + 1] - 1>>,
                              board.next_move))
            => /\ board'.winner = Some(board.next_move)
               /\ game_over(board')]_vars

\* Yellow has won with the bottom cells of columns 0 to 3
C17_Witness ==
    /\ board.winner = Some(Yellow)
    /\ game_over(board)
    /\ \A x \in 0..3 : Cell(board, <<x, Bottom(board)>>) = Yellow
    /\ ~HasFour(board, Red)

\* ---- gravity
\* C19: a cell (c, r) holds a piece exactly when r >= drop_zones[c]; a
\* successful drop into column c fills the cell (c, drop_zones[c] - 1), which
\* was empty and lies on top of the stack of the column, with the color to
\* move, and changes no other cell and no other counter.
C19_Gravity ==
    /\ [](\A x \in Columns(board), y \in Rows(board) :
            Cell(board, <<x, y>>) # Empty <=> y >= board.drop_zones[x + 1])
    /\ [][accepted' # accepted =>
            \E x \in Columns(board) :
               /\ board.drop_zones[x + 1] > 0
               /\ board'.drop_zones =
                     [board.drop_zones EXCEPT ![x + 1] = @ - 1]
               /\ Len(board'.grid._data) = Len(board.grid._data)
               /\ \A cx \in Columns(board), cy \in Rows(board) :
                     Cell(board', <<cx, cy>>) =
                        IF cx = x /\ cy = board.drop_zones[x + 1] - 1
                        THEN board.next_move
                        ELSE Cell(board, <<cx, cy>>)]_vars

\* a piece has just landed on top of another, next to an empty column
C19_Witness ==
    \E x \in Columns(board) :
        /\ board.drop_zones[x + 1] = board.grid.height - 2
        /\ ret = Some(board.drop_zones[x + 1])
        /\ Cell(board, <<x, board.grid.height - 2>>) # Empty
        /\ \E z \in Columns(board) : board.drop_zones[z + 1] = board.grid.height
        /\ board.grid.width # board.grid.height

\* ---- the loop of main
\* C18: the loop of main never reaches the branch that prints "Tie, nobody
\* wins (this should never occur)"; a turn starts only on a board that is
\* not over; and neither the human's drop nor the computer's board.moves()
\* is performed on a board whose game_over() is true.
C18_NeverStuck ==
    /\ [](message # Some(TieNever))
    /\ [](message = None => ~game_over(board) /\ FirstMove(board) # None)
    /\ [][(board' # board \/ moves_scores' # moves_scores)
            => ~game_over(board)]_vars

\* the human has filled the last cell, so that the computer would be to
\* move on a board without a legal move, and the loop has been left
C18_Witness ==
    /\ message = Some(Tie)
    /\ board.next_move = Red
    /\ AllFull(board)
    /\ FirstMove(board) = None
    /\ moves_scores # <<>>

\* C20: the board the computer adopts is one of the successors of the board
\* it was given, and no successor has a higher minimax value (depth
\* SearchDepth, minimizing layer next) than the adopted one.
C20_PicksBest ==
    [][(board' # board /\ board.next_move = Red) =>
          /\ board' \in Successors(board)
          /\ Contains(Children(board), board')
          /\ \A best \in {minimax(board', SearchDepth, None, None, FALSE)} :
                \A t \in Successors(board) :
                   minimax(t, SearchDepth, None, None, FALSE) <= best]_vars

\* the computer has just chosen among successors of different values
C20_Witness ==
    /\ board.next_move = Yellow
    /\ \E i, j \in 1..Len(moves_scores) :
          /\ moves_scores[i].score < moves_scores[j].score
          /\ moves_scores[j].board = board
    /\ \E i, j \in 1..Len(moves_scores) :
          /\ i # j
          /\ moves_scores[i].score = moves_scores[j].score
          /\ moves_scores[j].board = board
====
